---- MODULE Spec2Model ----
(***************************************************************************)
(* Model of rust-indexer (src/src/main.rs): a single-threaded indexer that *)
(* walks the .rs files of a project, parses each with syn, and issues      *)
(* Cypher MERGE queries to a Neo4j store.                                  *)
(*                                                                         *)
(* Two state machines share the module:                                    *)
(*   SpecResolver : the interaction resolver (find_interactions_in_stmt /  *)
(*                  find_interactions_in_expr) run over one function body; *)
(*   Spec         : a whole run of main over a codebase, one action per    *)
(*                  query sent to the store, with sink failures and        *)
(*                  reruns from the start.                                 *)
(***************************************************************************)
EXTENDS Naturals, Sequences, FiniteSets, Bags, TLC

VARIABLES
    body,          \* resolver input: item_fn.block.stmts
    si,            \* resolver: index of the next statement of the body
    interactions,  \* resolver: the accumulator `interactions`
    cuts,          \* resolver: Len(interactions) after each top-level statement
    codebase,      \* the files WalkDir yields, each with its parse result
    nodes,         \* the store's nodes (a bag of labelled keys)
    edges,         \* the store's relationships (a bag of typed key pairs)
    pc,            \* position of main: "idle", "running", "done", "aborted"
    queue,         \* the queries main has still to send in this run
    first,         \* the store as the first completed run left it
    completed,     \* some run has completed (first is meaningful)
    again,         \* a run has completed after the first completed run
    interrupted    \* some run was cut off by a failure

resolverVars == <<body, si, interactions, cuts>>
storeVars == <<codebase, nodes, edges, pc, queue, first, completed, again, interrupted>>
vars == <<body, si, interactions, cuts, codebase, nodes, edges, pc, queue, first,
          completed, again, interrupted>>

(***************************************************************************)
(* Bounds of the model.                                                    *)
(***************************************************************************)
MaxStmts == 2
MaxDepth == 2
MaxFiles == 2

(***************************************************************************)
(* Syntax trees as syn produces them, reduced to what the code inspects.   *)
(* A None of an Option is the empty sequence, Some(x) is <<x>>.            *)
(***************************************************************************)
Seg(id, generic) == [ident |-> id, args |-> generic]
NoPath == [leading |-> FALSE, segs |-> <<>>]
BarePath(id) == [leading |-> FALSE, segs |-> <<Seg(id, FALSE)>>]
GenericPath(id) == [leading |-> FALSE, segs |-> <<Seg(id, TRUE)>>]
QualifiedPath(q, id) == [leading |-> FALSE, segs |-> <<Seg(q, FALSE), Seg(id, FALSE)>>]
LeadingPath(id) == [leading |-> TRUE, segs |-> <<Seg(id, FALSE)>>]

MkExpr(k, p, f, a, s, e) ==
    [kind |-> k, path |-> p, func |-> f, args |-> a, stmts |-> s, els |-> e]
LitE == MkExpr("Lit", NoPath, <<>>, <<>>, <<>>, <<>>)
PathE(p) == MkExpr("Path", p, <<>>, <<>>, <<>>, <<>>)
ParenE(e) == MkExpr("Paren", NoPath, <<e>>, <<>>, <<>>, <<>>)
CallE(f, a) == MkExpr("Call", NoPath, <<f>>, a, <<>>, <<>>)
StructE(p, fields) == MkExpr("Struct", p, <<>>, fields, <<>>, <<>>)
MethodCallE(recv, m, a) == MkExpr("MethodCall", BarePath(m), <<recv>>, a, <<>>, <<>>)
BlockE(ss) == MkExpr("Block", NoPath, <<>>, <<>>, ss, <<>>)
IfE(c, ss, e) == MkExpr("If", NoPath, <<c>>, <<>>, ss, e)
WhileE(c, ss) == MkExpr("While", NoPath, <<c>>, <<>>, ss, <<>>)
ClosureE(e) == MkExpr("Closure", NoPath, <<e>>, <<>>, <<>>, <<>>)
BinaryE(l, r) == MkExpr("Binary", NoPath, <<>>, <<l, r>>, <<>>, <<>>)

LocalS(init) == [skind |-> "Local", expr |-> init]
ExprS(e) == [skind |-> "Expr", expr |-> <<e>>]
ItemS == [skind |-> "Item", expr |-> <<>>]
MacroS == [skind |-> "Macro", expr |-> <<>>]

(***************************************************************************)
(* The Interaction enum.                                                   *)
(***************************************************************************)
FunctionCall(n) == [tag |-> "FunctionCall", name |-> n]
StructInstantiation(n) == [tag |-> "StructInstantiation", name |-> n]

(***************************************************************************)
(* syn::Path::get_ident as the code uses it: Some(ident) for a path with   *)
(* no leading colon, one segment and no generic arguments.                 *)
(***************************************************************************)
GetIdentLastSegment(path) ==
    IF Len(path.segs) > 0 THEN <<path.segs[Len(path.segs)].ident>> ELSE <<>>

GetIdent(path) ==
    IF ~path.leading /\ Len(path.segs) = 1 /\ ~path.segs[1].args
    THEN <<path.segs[1].ident>>
    ELSE <<>>

RECURSIVE FindInteractionsInStmt(_, _)
RECURSIVE FindInteractionsInExpr(_, _)
RECURSIVE FindInteractionsInStmts(_, _)

(***************************************************************************)
(* Variants of the resolver with one plausible slip each.                  *)
(***************************************************************************)
FindInExprElseFirst(expr, acc) ==
    CASE expr.kind = "Call" ->
            IF expr.func[1].kind = "Path" /\ GetIdent(expr.func[1].path) # <<>>
            THEN Append(acc, FunctionCall(GetIdent(expr.func[1].path)[1]))
            ELSE acc
      [] expr.kind = "Struct" ->
            IF GetIdent(expr.path) # <<>>
            THEN Append(acc, StructInstantiation(GetIdent(expr.path)[1]))
            ELSE acc
      [] expr.kind = "Block" -> FindInteractionsInStmts(expr.stmts, acc)
      [] expr.kind = "If" ->
            LET viaElse == IF expr.els # <<>>
                           THEN FindInteractionsInExpr(expr.els[1], acc)
                           ELSE acc
            IN  FindInteractionsInStmts(expr.stmts, viaElse)
      [] OTHER -> acc

FindInExprIntoLoops(expr, acc) ==
    CASE expr.kind = "Call" ->
            IF expr.func[1].kind = "Path" /\ GetIdent(expr.func[1].path) # <<>>
            THEN Append(acc, FunctionCall(GetIdent(expr.func[1].path)[1]))
            ELSE acc
      [] expr.kind = "Struct" ->
            IF GetIdent(expr.path) # <<>>
            THEN Append(acc, StructInstantiation(GetIdent(expr.path)[1]))
            ELSE acc
      [] expr.kind \in {"Block", "While"} -> FindInteractionsInStmts(expr.stmts, acc)
      [] expr.kind = "If" ->
            LET viaThen == FindInteractionsInStmts(expr.stmts, acc)
            IN  IF expr.els # <<>>
                THEN FindInteractionsInExpr(expr.els[1], viaThen)
                ELSE viaThen
      [] OTHER -> acc

RECURSIVE FindInExprs(_, _)
FindInExprs(es, acc) ==
    IF es = <<>> THEN acc
    ELSE FindInExprs(Tail(es), FindInteractionsInExpr(Head(es), acc))

FindInExprIntoArgs(expr, acc) ==
    CASE expr.kind = "Call" ->
            LET own == IF expr.func[1].kind = "Path" /\ GetIdent(expr.func[1].path) # <<>>
                       THEN Append(acc, FunctionCall(GetIdent(expr.func[1].path)[1]))
                       ELSE acc
            IN  FindInExprs(expr.args, own)
      [] expr.kind = "Struct" ->
            LET own == IF GetIdent(expr.path) # <<>>
                       THEN Append(acc, StructInstantiation(GetIdent(expr.path)[1]))
                       ELSE acc
            IN  FindInExprs(expr.args, own)
      [] expr.kind = "Block" -> FindInteractionsInStmts(expr.stmts, acc)
      [] expr.kind = "If" ->
            LET viaCond == FindInteractionsInExpr(expr.func[1], acc)
                viaThen == FindInteractionsInStmts(expr.stmts, viaCond)
            IN  IF expr.els # <<>>
                THEN FindInteractionsInExpr(expr.els[1], viaThen)
                ELSE viaThen
      [] OTHER -> acc

(***************************************************************************)
(* find_interactions_in_stmt: threads the accumulator through the          *)
(* statement's wrapped expression.                                         *)
(***************************************************************************)
FindInteractionsInStmt(stmt, acc) ==
    CASE stmt.skind = "Local" ->
            IF stmt.expr # <<>> THEN FindInteractionsInExpr(stmt.expr[1], acc) ELSE acc
      [] stmt.skind = "Expr" -> FindInteractionsInExpr(stmt.expr[1], acc)
      [] OTHER -> acc

(***************************************************************************)
(* The `for stmt in ...stmts` loops over a statement list.                 *)
(***************************************************************************)
FindInteractionsInStmts(stmts, acc) ==
    IF stmts = <<>> THEN acc
    ELSE FindInteractionsInStmts(Tail(stmts), FindInteractionsInStmt(Head(stmts), acc))

(***************************************************************************)
(* find_interactions_in_expr.                                              *)
(***************************************************************************)
FindInteractionsInExpr(expr, acc) ==
    CASE expr.kind = "Call" ->
            IF expr.func[1].kind = "Path" /\ GetIdent(expr.func[1].path) # <<>>
            THEN Append(acc, FunctionCall(GetIdent(expr.func[1].path)[1]))
            ELSE acc
      [] expr.kind = "Struct" ->
            IF GetIdent(expr.path) # <<>>
            THEN Append(acc, StructInstantiation(GetIdent(expr.path)[1]))
            ELSE acc
      [] expr.kind = "Block" -> FindInteractionsInStmts(expr.stmts, acc)
      [] expr.kind = "If" ->
            LET viaThen == FindInteractionsInStmts(expr.stmts, acc)
            IN  IF expr.els # <<>>
                THEN FindInteractionsInExpr(expr.els[1], viaThen)
                ELSE viaThen
      [] OTHER -> acc

(***************************************************************************)
(* Function bodies the resolver is run on.  Chain(d) nests one expression  *)
(* inside every construct to depth d; Wide holds the blocks, loops and     *)
(* if/else expressions over every short statement list.                    *)
(***************************************************************************)
CallFoo == CallE(PathE(BarePath("foo")), <<>>)
CallBar == CallE(PathE(BarePath("bar")), <<>>)
NewPoint == StructE(BarePath("Point"), <<>>)
Cond == PathE(BarePath("cond"))
Self == PathE(BarePath("self"))

Core ==
    { CallFoo, CallBar, NewPoint,
      CallE(PathE(QualifiedPath("a", "bar")), <<>>),
      StructE(QualifiedPath("module", "Point"), <<>>),
      MethodCallE(Self, "bar", <<>>) }

Atoms ==
    Core \cup
    { CallE(PathE(GenericPath("foo")), <<>>),
      CallE(PathE(LeadingPath("foo")), <<>>),
      CallE(ParenE(PathE(BarePath("foo"))), <<>>),
      CallE(MethodCallE(Self, "getter", <<>>), <<>>),
      StructE(GenericPath("Point"), <<>>),
      StructE(LeadingPath("Point"), <<>>),
      StructE(BarePath("Point"), <<CallE(PathE(BarePath("make")), <<>>)>>),
      IfE(CallE(PathE(BarePath("check")), <<>>), <<>>, <<>>),
      ClosureE(CallFoo),
      BinaryE(CallFoo, CallBar),
      LitE, Cond }

Wrap1(e) ==
    { BlockE(<<ExprS(e)>>),
      BlockE(<<LocalS(<<e>>)>>),
      IfE(Cond, <<ExprS(e)>>, <<>>),
      IfE(e, <<>>, <<>>),
      WhileE(Cond, <<ExprS(e)>>),
      CallE(PathE(BarePath("foo")), <<e>>),
      CallE(PathE(QualifiedPath("a", "foo")), <<e>>),
      StructE(BarePath("Point"), <<e>>),
      MethodCallE(e, "bar", <<>>),
      ParenE(e) }
    \cup (IF e.kind \in {"Block", "If"} THEN {IfE(Cond, <<ExprS(CallFoo)>>, <<e>>)} ELSE {})

RECURSIVE Chain(_)
Chain(d) == IF d = 0 THEN Core ELSE Core \cup UNION {Wrap1(e) : e \in Chain(d - 1)}

SeqsUpTo(S, n) == UNION {[1..k -> S] : k \in 0..n}

WideStmts ==
    {ExprS(e) : e \in Core} \cup {LocalS(<<CallFoo>>), LocalS(<<>>), ItemS, MacroS}

ElseBlocks ==
    {<<BlockE(<<>>)>>} \cup {<<BlockE(<<ExprS(e)>>)>> : e \in Core}

ElseIfs ==
    { IfE(Cond, <<ExprS(x)>>, <<IfE(Cond, <<ExprS(y)>>, <<BlockE(<<ExprS(z)>>)>>)>>) :
        x \in {CallFoo, NewPoint}, y \in {CallBar, CallFoo}, z \in {NewPoint, CallBar} }

Wide ==
    LET SS == SeqsUpTo(WideStmts, MaxStmts)
    IN  {BlockE(ss) : ss \in SS} \cup {WhileE(Cond, ss) : ss \in SS}
        \cup {IfE(Cond, ss, el) : ss \in SS, el \in {<<>>} \cup ElseBlocks}
        \cup ElseIfs

AllExprs == Atoms \cup Chain(MaxDepth) \cup Wide

Bodies ==
    {<<ExprS(e)>> : e \in AllExprs} \cup {<<LocalS(<<e>>)>> : e \in AllExprs}
    \cup SeqsUpTo(WideStmts, MaxStmts)

(***************************************************************************)
(* SpecResolver: the loop of process_ast over item_fn.block.stmts, one     *)
(* statement per step, on a body drawn from Bodies.                        *)
(***************************************************************************)
EmptyStore == [nodes |-> EmptyBag, edges |-> EmptyBag]

StoreIdle ==
    /\ codebase = <<>>
    /\ nodes = EmptyBag
    /\ edges = EmptyBag
    /\ pc = "idle"
    /\ queue = <<>>
    /\ first = EmptyStore
    /\ completed = FALSE
    /\ again = FALSE
    /\ interrupted = FALSE

InitResolver ==
    /\ body \in Bodies
    /\ si = 1
    /\ interactions = <<>>
    /\ cuts = <<>>
    /\ StoreIdle

ResolveStep ==
    /\ interactions' = FindInteractionsInStmt(body[si], interactions)
    /\ cuts' = Append(cuts, Len(interactions'))
    /\ si' = si + 1
    /\ UNCHANGED <<body, codebase, nodes, edges, pc, queue, first, completed, again,
                   interrupted>>

ResolveLocal ==
    /\ si <= Len(body)
    /\ body[si].skind = "Local"
    /\ ResolveStep

ResolveExprStmt ==
    /\ si <= Len(body)
    /\ body[si].skind = "Expr"
    /\ ResolveStep

ResolveOtherStmt ==
    /\ si <= Len(body)
    /\ body[si].skind \notin {"Local", "Expr"}
    /\ ResolveStep

NextResolver == ResolveLocal \/ ResolveExprStmt \/ ResolveOtherStmt

SpecResolver == InitResolver /\ [][NextResolver]_vars

ResolverDone == pc = "idle" /\ si = Len(body) + 1

(***************************************************************************)
(* What the claims about the resolver are stated over: the expressions of  *)
(* a body, the ones the traversal hands to find_interactions_in_expr, and  *)
(* what one top-level statement appended.                                  *)
(***************************************************************************)
HeldExprs(stmts) ==
    {stmts[i].expr[1] : i \in {k \in 1..Len(stmts) : stmts[k].expr # <<>>}}

RECURSIVE SubExprs(_)
SubExprs(e) ==
    {e} \cup UNION {SubExprs(e.func[i]) : i \in 1..Len(e.func)}
        \cup UNION {SubExprs(e.args[i]) : i \in 1..Len(e.args)}
        \cup UNION {SubExprs(x) : x \in HeldExprs(e.stmts)}
        \cup UNION {SubExprs(e.els[i]) : i \in 1..Len(e.els)}

WrappedExprs(stmts) ==
    {stmts[i].expr[1] : i \in {k \in 1..Len(stmts) :
                                  stmts[k].skind \in {"Local", "Expr"} /\ stmts[k].expr # <<>>}}

RECURSIVE Reached(_)
Reached(e) ==
    {e} \cup (IF e.kind \in {"Block", "If"}
              THEN UNION {Reached(x) : x \in WrappedExprs(e.stmts)}
              ELSE {})
        \cup (IF e.kind = "If" /\ e.els # <<>> THEN Reached(e.els[1]) ELSE {})

ReachedOfBody == UNION {Reached(x) : x \in WrappedExprs(body)}
AllOfBody == UNION {SubExprs(x) : x \in HeldExprs(body)}

Appended(i) == SubSeq(interactions, (IF i = 1 THEN 0 ELSE cuts[i - 1]) + 1, cuts[i])

IsBareIdentPath(p) == ~p.leading /\ Len(p.segs) = 1 /\ ~p.segs[1].args

IsBareCall(e) == e.kind = "Call" /\ e.func[1].kind = "Path" /\ IsBareIdentPath(e.func[1].path)
IsBareStructLit(e) == e.kind = "Struct" /\ IsBareIdentPath(e.path)

OwnRecord(e) ==
    IF IsBareCall(e) THEN <<FunctionCall(e.func[1].path.segs[1].ident)>>
    ELSE IF IsBareStructLit(e) THEN <<StructInstantiation(e.path.segs[1].ident)>>
    ELSE <<>>

SeqRange(s) == {s[i] : i \in 1..Len(s)}

\* C5: of the expressions the traversal reaches, exactly the calls whose callee is a
\* single unqualified identifier record Call(name) and exactly the struct literals
\* whose path is a single unqualified identifier without generic arguments record
\* Instantiate(name); qualified, receiver and computed calls record nothing.
C5_BareIdentifierRule ==
    /\ \A e \in ReachedOfBody :
          e.kind \in {"Call", "Struct", "MethodCall"}
              => FindInteractionsInExpr(e, <<>>) = OwnRecord(e)
    /\ \A i \in 1..Len(cuts) :
          (body[i].expr # <<>> /\ body[i].expr[1].kind \in {"Call", "Struct", "MethodCall"})
              => Appended(i) = OwnRecord(body[i].expr[1])
    /\ ResolverDone =>
          SeqRange(interactions) =
              UNION {SeqRange(OwnRecord(e)) : e \in ReachedOfBody}

C5_Witness ==
    /\ ResolverDone
    /\ \E e \in ReachedOfBody : e.kind = "Call" /\ ~IsBareCall(e)
    /\ \E e \in ReachedOfBody : e.kind = "Struct" /\ ~IsBareStructLit(e)
    /\ \E e \in ReachedOfBody : IsBareCall(e)
    /\ Len(interactions) = 1

(***************************************************************************)
(* The depth-first, left-to-right sequence the specification describes,    *)
(* written without an accumulator.                                         *)
(***************************************************************************)
RECURSIVE PreOrderExpr(_)
RECURSIVE PreOrderStmts(_)
PreOrderExpr(e) ==
    CASE e.kind \in {"Call", "Struct"} -> OwnRecord(e)
      [] e.kind = "Block" -> PreOrderStmts(e.stmts)
      [] e.kind = "If" ->
            PreOrderStmts(e.stmts) \o (IF e.els # <<>> THEN PreOrderExpr(e.els[1]) ELSE <<>>)
      [] OTHER -> <<>>

PreOrderStmts(ss) ==
    IF ss = <<>> THEN <<>>
    ELSE (IF Head(ss).skind \in {"Local", "Expr"} /\ Head(ss).expr # <<>>
          THEN PreOrderExpr(Head(ss).expr[1])
          ELSE <<>>) \o PreOrderStmts(Tail(ss))

IfElseExample ==
    <<ExprS(IfE(Cond, <<ExprS(CallFoo)>>, <<BlockE(<<ExprS(CallBar)>>)>>))>>

\* C6: an if-expression appends the interactions of its then-branch statements in
\* source order, then those of its else branch; the list built for a body is the
\* depth-first, left-to-right sequence of the interactions of its statements, and
\* `if cond { foo(); } else { bar(); }` yields Call(foo) then Call(bar).
C6_PreOrderOverIf ==
    /\ \A e \in ReachedOfBody :
          e.kind = "If" =>
              FindInteractionsInExpr(e, <<>>) =
                  FindInteractionsInStmts(e.stmts, <<>>)
                      \o (IF e.els # <<>> THEN FindInteractionsInExpr(e.els[1], <<>>) ELSE <<>>)
    /\ interactions = PreOrderStmts(SubSeq(body, 1, si - 1))
    /\ (ResolverDone /\ body = IfElseExample)
          => interactions = <<FunctionCall("foo"), FunctionCall("bar")>>

C6_Witness ==
    /\ ResolverDone
    /\ body = IfElseExample
    /\ Len(interactions) = 2

WhileExample == <<ExprS(WhileE(Cond, <<ExprS(CallFoo)>>))>>

Traversed == {"Call", "Struct", "Block", "If"}

\* C7: an expression other than a call, struct literal, block or if, and a statement
\* other than a let with initializer or an expression statement, contributes no
\* interaction, whatever is nested in it; `while cond { foo(); }` yields nothing.
C7_UnreachedShapes ==
    /\ \A e \in AllOfBody :
          e.kind \notin Traversed =>
              \A acc \in {<<>>, <<FunctionCall("seen")>>} :
                  FindInteractionsInExpr(e, acc) = acc
    /\ \A i \in 1..Len(cuts) :
          (\/ body[i].expr = <<>>
           \/ body[i].skind \notin {"Local", "Expr"}
           \/ body[i].expr[1].kind \notin Traversed)
              => Appended(i) = <<>>
    /\ (ResolverDone /\ body = WhileExample) => interactions = <<>>

C7_Witness ==
    /\ ResolverDone
    /\ body = WhileExample
    /\ interactions = <<>>

Strip(e) ==
    CASE e.kind \in {"Call", "Struct"} -> [e EXCEPT !.args = <<>>]
      [] e.kind = "If" -> [e EXCEPT !.func = <<LitE>>]
      [] OTHER -> e

CallInArgExample == <<ExprS(CallE(PathE(BarePath("foo")), <<CallBar>>))>>
CallInFieldExample ==
    <<ExprS(StructE(BarePath("Point"), <<CallE(PathE(BarePath("make")), <<>>)>>))>>
CallInCondExample == <<ExprS(IfE(CallE(PathE(BarePath("check")), <<>>), <<>>, <<>>))>>

\* C10: the arguments of a call, the field values of a struct literal and the
\* condition of an if are never traversed: `foo(bar())` yields [Call(foo)],
\* `Point { x: make() }` yields [Instantiate(Point)], `if check() { }` yields [].
C10_NoDescentIntoOperands ==
    /\ \A e \in ReachedOfBody :
          FindInteractionsInExpr(e, <<>>) = FindInteractionsInExpr(Strip(e), <<>>)
    /\ \A i \in 1..Len(cuts) :
          body[i].expr # <<>> =>
              Appended(i) = FindInteractionsInExpr(Strip(body[i].expr[1]), <<>>)
    /\ ResolverDone =>
          /\ body = CallInArgExample => interactions = <<FunctionCall("foo")>>
          /\ body = CallInFieldExample => interactions = <<StructInstantiation("Point")>>
          /\ body = CallInCondExample => interactions = <<>>

C10_Witness ==
    /\ ResolverDone
    /\ body = CallInArgExample
    /\ interactions = <<FunctionCall("foo")>>

(***************************************************************************)
(* The store.  A node is a label with its key properties, an edge a type   *)
(* with the keys of its endpoints; both are kept in bags, so that a        *)
(* duplicate would show.                                                   *)
(***************************************************************************)
Project == "proj"

ProjectNode(name) == [label |-> "Project", key |-> <<name>>]
FileNode(path) == [label |-> "File", key |-> <<path>>]
KeyedNode(label, name, project) == [label |-> label, key |-> <<name, project>>]
Edge(type, src, dst) == [type |-> type, src |-> src, dst |-> dst]

\* CREATE in place of MERGE.
CreateNode(st, n) == [st EXCEPT !.nodes = @ (+) SetToBag({n})]

\* MERGE (n:Label {key}): create the node unless one matches.
MergeNode(st, n) ==
    IF BagIn(n, st.nodes) THEN st ELSE [st EXCEPT !.nodes = @ (+) SetToBag({n})]

\* CREATE in place of MERGE.
CreateEdge(st, e, pairs) == [st EXCEPT !.edges = @ (+) [x \in {e} |-> pairs]]

\* MERGE (a)-[:TYPE]->(b) over `pairs` bound rows: a relationship is created for
\* every bound pair of endpoints that has none.
MergeEdge(st, e, pairs) ==
    IF CopiesIn(e, st.edges) >= pairs THEN st
    ELSE [st EXCEPT !.edges = @ (+) [x \in {e} |-> pairs - CopiesIn(e, st.edges)]]

\* The link is made without upserting its far endpoint.
LinkWithoutUpsert(st, m, n, rel) ==
    IF CopiesIn(m, st.nodes) = 0 THEN st
    ELSE MergeEdge(st, Edge(rel, m, n), CopiesIn(m, st.nodes))

\* MATCH (m) MERGE (n) MERGE (m)-[:rel]->(n): no row, and so no write, unless m
\* is in the store.
MatchMergeLink(st, m, n, rel) ==
    IF CopiesIn(m, st.nodes) = 0 THEN st
    ELSE LET st1 == MergeNode(st, n)
         IN  MergeEdge(st1, Edge(rel, m, n),
                       CopiesIn(m, st1.nodes) * CopiesIn(n, st1.nodes))

\* MERGE (s) MERGE (t) MERGE (s)-[:rel]->(t).
MergeMergeLink(st, s, t, rel) ==
    LET st2 == MergeNode(MergeNode(st, s), t)
    IN  MergeEdge(st2, Edge(rel, s, t), CopiesIn(s, st2.nodes) * CopiesIn(t, st2.nodes))

(***************************************************************************)
(* The queries main and process_ast send, as data.                         *)
(***************************************************************************)
Query(op, src, dst) == [op |-> op, src |-> src, dst |-> dst]
ProjectQ(project) == Query("Project", ProjectNode(project), ProjectNode(project))
FileQ(project, path) == Query("File", ProjectNode(project), FileNode(path))
ContainsQ(path, label, name, project) ==
    Query("Contains", FileNode(path), KeyedNode(label, name, project))
CallsQ(caller, callee, project) ==
    Query("Calls", KeyedNode("Function", caller, project),
                   KeyedNode("Function", callee, project))
InstantiatesQ(caller, struct, project) ==
    Query("Instantiates", KeyedNode("Function", caller, project),
                          KeyedNode("Struct", struct, project))
ImplementsQ(struct, trait, project) ==
    Query("Implements", KeyedNode("Struct", struct, project),
                        KeyedNode("Trait", trait, project))

RelType(op) ==
    CASE op = "File" -> "CONTAINS_FILE"
      [] op = "Contains" -> "CONTAINS"
      [] op = "Calls" -> "CALLS"
      [] op = "Instantiates" -> "INSTANTIATES"
      [] op = "Implements" -> "IMPLEMENTS"

\* The File node is CREATEd rather than MERGEd.
ApplyCreatingFile(st, q) ==
    CASE q.op = "Project" -> MergeNode(st, q.dst)
      [] q.op = "Implements" -> MergeMergeLink(st, q.src, q.dst, RelType(q.op))
      [] q.op = "File" -> MatchMergeLink(CreateNode(st, q.dst), q.src, q.dst, RelType(q.op))
      [] OTHER -> MatchMergeLink(st, q.src, q.dst, RelType(q.op))

\* What the store does with one query.
Apply(st, q) ==
    CASE q.op = "Project" -> MergeNode(st, q.dst)
      [] q.op = "Implements" -> MergeMergeLink(st, q.src, q.dst, RelType(q.op))
      [] OTHER -> MatchMergeLink(st, q.src, q.dst, RelType(q.op))

RECURSIVE ApplyAll(_, _)
ApplyAll(st, qs) == IF qs = <<>> THEN st ELSE ApplyAll(Apply(st, Head(qs)), Tail(qs))

(***************************************************************************)
(* Top-level items of a parsed file.                                       *)
(***************************************************************************)
PathT(p) == [tkind |-> "Path", path |-> p]
ReferenceT(p) == [tkind |-> "Reference", path |-> p]
TupleT == [tkind |-> "Tuple", path |-> NoPath]

MkItem(k, id, ss, tr, ty) ==
    [ikind |-> k, ident |-> id, stmts |-> ss, trait_ |-> tr, self_ty |-> ty]
ItemFn(name, ss) == MkItem("Fn", name, ss, <<>>, TupleT)
ItemStruct(name) == MkItem("Struct", name, <<>>, <<>>, TupleT)
ItemTrait(name) == MkItem("Trait", name, <<>>, <<>>, TupleT)
ItemImpl(tr, ty) == MkItem("Impl", "", <<>>, tr, ty)
ItemOther == MkItem("Other", "", <<>>, <<>>, TupleT)

\* Only a bare identifier is taken for the target type.
GetIdentFromTypeBareOnly(ty) ==
    IF ty.tkind = "Path" THEN GetIdent(ty.path) ELSE <<>>

\* get_ident_from_type: the last segment's identifier of a path type.
GetIdentFromType(ty) ==
    IF ty.tkind = "Path"
    THEN (IF Len(ty.path.segs) > 0
          THEN <<ty.path.segs[Len(ty.path.segs)].ident>>
          ELSE <<>>)
    ELSE <<>>

\* The `for interaction in interactions` loop.
InteractionQueries(project, func_name, found) ==
    [i \in 1..Len(found) |->
        IF found[i].tag = "FunctionCall"
        THEN CallsQ(func_name, found[i].name, project)
        ELSE InstantiatesQ(func_name, found[i].name, project)]

\* One arm of the match in process_ast.
ItemQueries(project, path, item) ==
    CASE item.ikind = "Fn" ->
            <<ContainsQ(path, "Function", item.ident, project)>>
                \o InteractionQueries(project, item.ident,
                                      FindInteractionsInStmts(item.stmts, <<>>))
      [] item.ikind = "Struct" -> <<ContainsQ(path, "Struct", item.ident, project)>>
      [] item.ikind = "Trait" -> <<ContainsQ(path, "Trait", item.ident, project)>>
      [] item.ikind = "Impl" ->
            IF item.trait_ # <<>>
               /\ Len(item.trait_[1].segs) > 0
               /\ GetIdentFromType(item.self_ty) # <<>>
            THEN <<ImplementsQ(GetIdentFromType(item.self_ty)[1],
                               item.trait_[1].segs[Len(item.trait_[1].segs)].ident,
                               project)>>
            ELSE <<>>
      [] OTHER -> <<>>

RECURSIVE ProcessAst(_, _, _)
ProcessAst(project, path, items) ==
    IF items = <<>> THEN <<>>
    ELSE ItemQueries(project, path, Head(items)) \o ProcessAst(project, path, Tail(items))

RECURSIVE MainLoop(_, _, _)

\* The walk ends at the first file that does not parse.
MainLoopStoppingAtParseFailure(project, files, i) ==
    IF i > Len(files) THEN <<>>
    ELSE <<FileQ(project, files[i].path)>>
         \o (IF files[i].ast # <<>>
             THEN ProcessAst(project, files[i].path, files[i].ast[1])
                  \o MainLoop(project, files, i + 1)
             ELSE <<>>)

\* The loop of main over the .rs files, from file i on.
MainLoop(project, files, i) ==
    IF i > Len(files) THEN <<>>
    ELSE <<FileQ(project, files[i].path)>>
         \o (IF files[i].ast # <<>>
             THEN ProcessAst(project, files[i].path, files[i].ast[1])
             ELSE <<>>)
         \o MainLoop(project, files, i + 1)

\* Every query of one run of main, in order.
Main(project, files) == <<ProjectQ(project)>> \o MainLoop(project, files, 1)

(***************************************************************************)
(* Codebases: up to MaxFiles files, each either failing to parse or        *)
(* holding one of the item lists below.                                    *)
(***************************************************************************)
Greet == BarePath("Greet")
PointT == PathT(BarePath("Point"))

FnFoo ==
    ItemFn("foo", <<ExprS(CallBar), LocalS(<<NewPoint>>),
                    ExprS(WhileE(Cond, <<ExprS(CallFoo)>>))>>)
FnFooRecursive ==
    ItemFn("foo", <<ExprS(IfE(Cond, <<ExprS(CallFoo)>>, <<BlockE(<<ExprS(CallBar)>>)>>))>>)
FnBar == ItemFn("bar", <<ExprS(CallE(PathE(QualifiedPath("a", "foo")), <<>>))>>)

FileAsts ==
    { <<>>,
      <<FnFoo, ItemStruct("Point"), ItemTrait("Greet")>>,
      <<FnFooRecursive, FnBar, FnBar>>,
      <<ItemStruct("Point"), ItemImpl(<<Greet>>, PointT), ItemImpl(<<>>, PointT)>>,
      <<ItemTrait("Greet"), ItemOther,
        ItemImpl(<<QualifiedPath("a", "Greet")>>, PathT(GenericPath("Vec")))>>,
      <<ItemImpl(<<Greet>>, PathT(QualifiedPath("module", "Point"))),
        ItemImpl(<<Greet>>, ReferenceT(BarePath("Point")))>>,
      <<ItemImpl(<<BarePath("Show")>>, TupleT), ItemStruct("foo"), FnFoo>> }

ParseResults == {<<>>} \cup {<<a>> : a \in FileAsts}

PathOf(i) == <<"src/a.rs", "src/b.rs", "src/c.rs", "src/d.rs">>[i]

Codebases ==
    UNION { {[i \in 1..k |-> [path |-> PathOf(i), ast |-> r[i]]] : r \in [1..k -> ParseResults]} :
            k \in 0..MaxFiles }

Store == [nodes |-> nodes, edges |-> edges]

\* The store an uninterrupted run over `files` leaves, starting from `st`.
RunOn(st, files) == ApplyAll(st, Main(Project, files))
Full == RunOn(EmptyStore, codebase)

(***************************************************************************)
(* Spec: runs of main.  Each query is one step; any pending operation may  *)
(* fail, which ends the run (the error leaves main through `?`); the       *)
(* indexer may then be started again.                                      *)
(***************************************************************************)
Init ==
    /\ body = <<>>
    /\ si = 1
    /\ interactions = <<>>
    /\ cuts = <<>>
    /\ codebase \in Codebases
    /\ nodes = EmptyBag
    /\ edges = EmptyBag
    /\ pc = "start"
    /\ queue = <<>>
    /\ first = EmptyStore
    /\ completed = FALSE
    /\ again = FALSE
    /\ interrupted = FALSE

\* main is entered: the queries of this run are those of the codebase as it is.
Start ==
    /\ pc \in {"start", "done", "aborted"}
    /\ pc' = "running"
    /\ queue' = Main(Project, codebase)
    /\ UNCHANGED <<body, si, interactions, cuts, codebase, nodes, edges, first, completed,
                   again, interrupted>>

\* graph.run(query).await returns Ok: the store has applied the query.
Send ==
    /\ nodes' = Apply(Store, Head(queue)).nodes
    /\ edges' = Apply(Store, Head(queue)).edges
    /\ queue' = Tail(queue)
    /\ UNCHANGED <<body, si, interactions, cuts, codebase, pc, first, completed, again,
                   interrupted>>

Pending(op) == pc = "running" /\ queue # <<>> /\ Head(queue).op = op

ExecProject ==
    /\ Pending("Project")
    /\ Send

ExecFile ==
    /\ Pending("File")
    /\ Send

ExecContains ==
    /\ Pending("Contains")
    /\ Send

ExecCalls ==
    /\ Pending("Calls")
    /\ Send

ExecInstantiates ==
    /\ Pending("Instantiates")
    /\ Send

ExecImplements ==
    /\ Pending("Implements")
    /\ Send

\* The pending operation returns an error, with the query applied or not; main
\* returns it and nothing more is sent.
Fail ==
    /\ pc = "running"
    /\ queue # <<>>
    /\ \E st \in {Store, Apply(Store, Head(queue))} :
          /\ nodes' = st.nodes
          /\ edges' = st.edges
          /\ interrupted' = (interrupted \/ (st.nodes # EmptyBag /\ st # Full))
    /\ pc' = "aborted"
    /\ queue' = <<>>
    /\ UNCHANGED <<body, si, interactions, cuts, codebase, first, completed, again>>

\* The loop is over: "Indexing complete", Ok(()).
Finish ==
    /\ pc = "running"
    /\ queue = <<>>
    /\ pc' = "done"
    /\ first' = IF completed THEN first ELSE Store
    /\ completed' = TRUE
    /\ again' = (again \/ completed)
    /\ UNCHANGED <<body, si, interactions, cuts, codebase, nodes, edges, queue, interrupted>>

Next ==
    \/ Start
    \/ ExecProject
    \/ ExecFile
    \/ ExecContains
    \/ ExecCalls
    \/ ExecInstantiates
    \/ ExecImplements
    \/ Fail
    \/ Finish

Spec == Init /\ [][Next]_vars

(***************************************************************************)
(* What the claims about a run are stated over.                            *)
(***************************************************************************)
ParsedFiles == {i \in 1..Len(codebase) : codebase[i].ast # <<>>}
FailedFiles == {i \in 1..Len(codebase) : codebase[i].ast = <<>>}
ItemsOf(i) == codebase[i].ast[1]
AllItems == UNION {SeqRange(ItemsOf(i)) : i \in ParsedFiles}

Declares(i, kind, name) ==
    \E k \in 1..Len(ItemsOf(i)) : ItemsOf(i)[k].ikind = kind /\ ItemsOf(i)[k].ident = name
DeclaringFiles(kind, name) == {i \in ParsedFiles : Declares(i, kind, name)}

LabelOf(kind) ==
    CASE kind = "Fn" -> "Function" [] kind = "Struct" -> "Struct" [] kind = "Trait" -> "Trait"

EdgesInto(n, type) == {e \in BagToSet(edges) : e.type = type /\ e.dst = n}
InDegree(n, type) == BagCardinality([e \in EdgesInto(n, type) |-> edges[e]])

\* C1: processing a parsed file with process_ast a second time, or running the whole
\* indexer again over the unchanged codebase, adds no node and no edge: the store
\* is the one the first pass left.
C1_Idempotence ==
    /\ (pc = "done" /\ completed) => Store = first
    /\ \A i \in ParsedFiles :
          BagIn(FileNode(codebase[i].path), nodes) =>
              LET qs == ProcessAst(Project, codebase[i].path, ItemsOf(i))
                  once == ApplyAll(Store, qs)
              IN  ApplyAll(once, qs) = once

C1_Witness ==
    /\ pc = "done"
    /\ again
    /\ \E e \in BagToSet(edges) : e.type = "CALLS"
    /\ \E e \in BagToSet(edges) : e.type = "IMPLEMENTS"

\* C2: after a run in which two or more files declare a function (struct, trait) of
\* one name, the store holds exactly one node for that (name, project) key and
\* exactly one CONTAINS edge into it from each declaring file, and no other.
C2_IdentifierCollapsing ==
    pc = "done" =>
        \A kind \in {"Fn", "Struct", "Trait"} :
            \A item \in AllItems :
                LET files == DeclaringFiles(kind, item.ident)
                    n == KeyedNode(LabelOf(kind), item.ident, Project)
                IN  Cardinality(files) >= 2 =>
                        /\ CopiesIn(n, nodes) = 1
                        /\ InDegree(n, "CONTAINS") = Cardinality(files)
                        /\ \A i \in files :
                              CopiesIn(Edge("CONTAINS", FileNode(codebase[i].path), n),
                                       edges) = 1

C2_Witness ==
    /\ pc = "done"
    /\ Len(codebase) = 2
    /\ \A kind \in {"Fn", "Struct", "Trait"} :
          \E item \in AllItems :
              /\ DeclaringFiles(kind, item.ident) = {1, 2}
              /\ InDegree(KeyedNode(LabelOf(kind), item.ident, Project), "CONTAINS") = 2

EndpointsPresent ==
    \A e \in BagToSet(edges) : BagIn(e.src, nodes) /\ BagIn(e.dst, nodes)

UpsertThenLink ==
    \A e \in BagToSet(edges') :
        CopiesIn(e, edges') > CopiesIn(e, edges) =>
            /\ BagIn(e.dst, nodes')
            /\ IF e.type = "IMPLEMENTS" THEN BagIn(e.src, nodes') ELSE BagIn(e.src, nodes)

\* C3: in every store state of a run each edge has both endpoint nodes in the store,
\* and a step creates an edge only from a MATCHed endpoint that an earlier step
\* upserted (IMPLEMENTS, which MATCHes nothing: upserted in the step) to an endpoint
\* upserted in the same step.
C3_EdgesHaveEndpoints == []EndpointsPresent /\ [][UpsertThenLink]_vars

C3_Witness ==
    /\ pc = "done"
    /\ {e.type : e \in BagToSet(edges)} =
          {"CONTAINS_FILE", "CONTAINS", "CALLS", "INSTANTIATES", "IMPLEMENTS"}

ImplBlocks == {b \in AllItems : b.ikind = "Impl"}
NamesInterface(b) == b.trait_ # <<>>
TargetIsBareIdent(b) == b.self_ty.tkind = "Path" /\ IsBareIdentPath(b.self_ty.path)
TargetIsPathType(b) == b.self_ty.tkind = "Path"
LastSegment(p) == p.segs[Len(p.segs)].ident
ImplementsEdge(s, t) ==
    Edge("IMPLEMENTS", KeyedNode("Struct", s, Project), KeyedNode("Trait", t, Project))
ImplementsEdges == {e \in BagToSet(edges) : e.type = "IMPLEMENTS"}

\* Struct and Trait nodes that declarations and function bodies account for.
DeclaredOrInstantiated ==
    {KeyedNode(LabelOf(it.ikind), it.ident, Project) :
        it \in {x \in AllItems : x.ikind \in {"Struct", "Trait"}}}
    \cup UNION { {KeyedNode("Struct", r.name, Project) :
                    r \in {x \in SeqRange(PreOrderStmts(it.stmts)) :
                              x.tag = "StructInstantiation"}} :
                 it \in {x \in AllItems : x.ikind = "Fn"} }
StructAndTraitNodes == {n \in BagToSet(nodes) : n.label \in {"Struct", "Trait"}}

\* C4 as stated: IMPLEMENTS is emitted iff the block names an interface and its
\* target type is a bare identifier; otherwise the block emits no node and no edge.
C4_AsStated ==
    pc = "done" =>
        LET linked == {b \in ImplBlocks : NamesInterface(b) /\ TargetIsBareIdent(b)}
            links == {ImplementsEdge(LastSegment(b.self_ty.path), LastSegment(b.trait_[1])) :
                        b \in linked}
        IN  /\ ImplementsEdges = links
            /\ StructAndTraitNodes =
                  DeclaredOrInstantiated \cup {e.src : e \in links} \cup {e.dst : e \in links}

\* C4 (amended): IMPLEMENTS (Struct{last segment of the target} -> Trait{last
\* segment of the interface}) is emitted iff the block names an interface and its
\* target type is a path type, bare, generic or qualified; otherwise the block
\* emits no node and no edge.
C4_ImplementationLinking ==
    /\ \A i \in ParsedFiles : \A b \in SeqRange(ItemsOf(i)) :
          b.ikind = "Impl" =>
              ItemQueries(Project, codebase[i].path, b) =
                  IF NamesInterface(b) /\ TargetIsPathType(b)
                  THEN <<ImplementsQ(LastSegment(b.self_ty.path), LastSegment(b.trait_[1]),
                                     Project)>>
                  ELSE <<>>
    /\ pc = "done" =>
        LET linked == {b \in ImplBlocks : NamesInterface(b) /\ TargetIsPathType(b)}
            links == {ImplementsEdge(LastSegment(b.self_ty.path), LastSegment(b.trait_[1])) :
                        b \in linked}
        IN  /\ ImplementsEdges = links
            /\ \A e \in links : CopiesIn(e, edges) = 1
            /\ StructAndTraitNodes =
                  DeclaredOrInstantiated \cup {e.src : e \in links} \cup {e.dst : e \in links}

C4_Witness ==
    /\ pc = "done"
    /\ \E b \in ImplBlocks : NamesInterface(b) /\ TargetIsPathType(b) /\ ~TargetIsBareIdent(b)
    /\ \E b \in ImplBlocks : NamesInterface(b) /\ ~TargetIsPathType(b)
    /\ \E b \in ImplBlocks : ~NamesInterface(b)
    /\ ImplementsEdges # {}

\* The codebase with each file that fails to parse replaced by a file that parses
\* to no declaration.
Blanked ==
    [i \in 1..Len(codebase) |->
        IF codebase[i].ast = <<>> THEN [codebase[i] EXCEPT !.ast = << <<>> >>]
        ELSE codebase[i]]

\* C8: a file that fails to parse gets its File node and CONTAINS_FILE edge and no
\* other record; the run goes on over the remaining files and ends successfully,
\* with the records it would have had the failing file held no declarations.
C8_ParseFailuresNonFatal ==
    /\ \A i \in FailedFiles :
          \A e \in BagToSet(edges) : e.src # FileNode(codebase[i].path)
    /\ pc = "done" =>
          /\ \A i \in FailedFiles :
                /\ CopiesIn(FileNode(codebase[i].path), nodes) = 1
                /\ CopiesIn(Edge("CONTAINS_FILE", ProjectNode(Project),
                                 FileNode(codebase[i].path)), edges) = 1
          /\ \A i \in 1..Len(codebase) : BagIn(FileNode(codebase[i].path), nodes)
          /\ Store = RunOn(EmptyStore, Blanked)

C8_Witness ==
    /\ pc = "done"
    /\ Len(codebase) = 2
    /\ FailedFiles = {1}
    /\ \E e \in BagToSet(edges) : e.type = "CONTAINS" /\ e.src = FileNode(codebase[2].path)

\* C9: a run cut off after any number of sink operations leaves a subset of the
\* nodes and edges of a complete run, and a complete run from the start then ends
\* with exactly the store of one uninterrupted run on an empty store.
C9_SafeResume ==
    /\ nodes \sqsubseteq Full.nodes
    /\ edges \sqsubseteq Full.edges
    /\ pc = "done" => Store = Full

C9_Witness ==
    /\ pc = "done"
    /\ interrupted
    /\ ~again
    /\ \E e \in BagToSet(edges) : e.type = "CALLS"

====
